---- MODULE Spec2Model ----
(***************************************************************************)
(* Model of src/dashboard/dashboard.py: a Streamlit dashboard that runs    *)
(* five read-only SQL aggregations (memoized with st.cache_data) and shows *)
(* each of them in one of five report views chosen with a sidebar radio.   *)
(*                                                                         *)
(* Tables are sequences of rows.  A due date as stored (text DD/MM/YYYY)   *)
(* is the record [dd, mm, yyyy] of the three numbers written in it, named  *)
(* by their place in the text; a parsed date is the record                 *)
(* [year, month, day].  Amounts are exact decimals, counted in centavos.   *)
(* An optional value is <<>> (none) or <<v>>.                              *)
(***************************************************************************)
EXTENDS Integers, Sequences, FiniteSets, TLC

VARIABLES
    contapagar,     \* accounts-payable table
    contareceber,   \* accounts-receivable table
    categorias,     \* categories table
    clientes,       \* parties table
    today,          \* CURRENT_DATE of the database server
    started,        \* the script has run at least once in this process
    escolha,        \* value of the sidebar radio
    cache,          \* st.cache_data: load function -> <<>> or <<stored result>>
    invoked,        \* render functions invoked by the last run of main
    called,         \* load functions called by the last run of main
    queried,        \* load functions whose query was executed by the last run
    returned,       \* what the load function handed to the view: <<>> or <<result>>
    display,        \* what the last run of main put on the page
    renderDate      \* CURRENT_DATE when the last run of main happened

vars == <<contapagar, contareceber, categorias, clientes, today, started,
          escolha, cache, invoked, called, queried, returned, display, renderDate>>

dbvars == <<contapagar, contareceber, categorias, clientes>>

(***************************************************************************)
(* Bounds of the model.                                                    *)
(***************************************************************************)
MaxRows == 2        \* rows per table
MaxAmount == 2      \* amounts are 1..MaxAmount centavos
MaxAdvance == 2     \* calendar days the clock may advance

(***************************************************************************)
(* Generic helpers on sequences and sets.                                  *)
(***************************************************************************)
RECURSIVE SeqSum(_)
SeqSum(s) == IF s = <<>> THEN 0 ELSE Head(s) + SeqSum(Tail(s))

RECURSIVE SetSum(_, _)
SetSum(S, f) ==
    IF S = {} THEN 0
    ELSE LET e == CHOOSE e \in S : TRUE IN f[e] + SetSum(S \ {e}, f)

Range(s) == { s[i] : i \in DOMAIN s }

Orderings(S) ==
    { s \in [1..Cardinality(S) -> S] : \A i, j \in DOMAIN s : i # j => s[i] # s[j] }

Reorderings(s) ==
    { [i \in DOMAIN s |-> s[p[i]]] : p \in Orderings(DOMAIN s) }

SeqsUpTo(S, n) == UNION { [1..k -> S] : k \in 0..n }

(***************************************************************************)
(* Calendar arithmetic of the database (PostgreSQL dates) and of pandas.   *)
(***************************************************************************)
\* the text DD/MM/YYYY
Txt(dd, mm, yyyy) == [dd |-> dd, mm |-> mm, yyyy |-> yyyy]

IsLeap(y) == (y % 4 = 0 /\ y % 100 # 0) \/ y % 400 = 0

DaysInMonth(y, m) ==
    IF m = 2 THEN (IF IsLeap(y) THEN 29 ELSE 28)
    ELSE IF m \in {4, 6, 9, 11} THEN 30 ELSE 31

\* a DD/MM/YYYY text whose fields name a calendar day
ValidText(t) ==
    /\ t.mm \in 1..12
    /\ t.dd >= 1
    /\ t.dd <= DaysInMonth(t.yyyy, t.mm)

\* to_date(data_vencimento, 'DD/MM/YYYY'), for a text ValidText accepts
to_date(t) == [year |-> t.yyyy, month |-> t.mm, day |-> t.dd]

\* the day number PostgreSQL stores for a date (date2j)
date2j(d) ==
    LET m == IF d.month > 2 THEN d.month + 1 ELSE d.month + 13
        y == IF d.month > 2 THEN d.year + 4800 ELSE d.year + 4799
        century == y \div 100
    IN  y * 365 - 32167 + (y \div 4) - century + (century \div 4)
          + ((7834 * m) \div 256) + d.day

\* date_lt with a fault: <= for <
date_le(a, b) == date2j(a) <= date2j(b)

\* date < date in SQL
date_lt(a, b) == date2j(a) < date2j(b)

\* DATE_TRUNC('month', date)
date_trunc_month(d) == [year |-> d.year, month |-> d.month, day |-> 1]

\* the calendar date at which the model starts
StartDate == [year |-> 2024, month |-> 6, day |-> 14]

NextDay(d) ==
    IF d.day < DaysInMonth(d.year, d.month) THEN [d EXCEPT !.day = d.day + 1]
    ELSE IF d.month < 12 THEN [year |-> d.year, month |-> d.month + 1, day |-> 1]
    ELSE [year |-> d.year + 1, month |-> 1, day |-> 1]

(***************************************************************************)
(* The five SQL statements.  Each operator is the set of results the       *)
(* statement may return; the empty set means the statement raises.  A      *)
(* SELECT without ORDER BY returns its rows in any order, and ORDER BY     *)
(* leaves rows with equal keys in any order.                               *)
(***************************************************************************)
IsText(v) == "dd" \in DOMAIN v

AllDatesValid(tbl) == \A i \in DOMAIN tbl : ValidText(tbl[i].data_vencimento)

\* SELECT data_vencimento, CAST(valor_documento AS numeric) AS valor_documento
Projecao(tbl) ==
    [i \in DOMAIN tbl |-> [data_vencimento |-> tbl[i].data_vencimento,
                           valor_documento |-> tbl[i].valor_documento]]

query_fluxo_caixa ==
    { [despesas |-> d, receitas |-> r] :
        d \in Reorderings(Projecao(contapagar)),
        r \in Reorderings(Projecao(contareceber)) }

\* ORDER BY total DESC with a fault: ascending
OrderedByTotalAsc(s) == \A i, j \in DOMAIN s : i < j => s[i].total <= s[j].total

\* ORDER BY total DESC
OrderedByTotalDesc(s) == \A i, j \in DOMAIN s : i < j => s[i].total >= s[j].total

\* contapagar JOIN <dim> ON cp.<fk> = dim.<key>: pairs <<row index, dim row>>
Joined(fk, dim, key) ==
    { p \in (DOMAIN contapagar) \X dim : contapagar[p[1]][fk] = p[2][key] }

\* SUM(CAST(cp.valor_documento AS numeric)) of the group labelled g
GroupTotal(J, label, g) ==
    LET G == { p \in J : p[2][label] = g }
    IN  SetSum(G, [p \in G |-> contapagar[p[1]].valor_documento])

query_despesas_por_categoria ==
    LET J == Joined("codigo_categoria", categorias, "codigo")
        rows == { [categoria |-> g, total |-> GroupTotal(J, "descricao", g)] :
                    g \in { p[2].descricao : p \in J } }
    IN  { s \in Orderings(rows) : OrderedByTotalDesc(s) }

query_despesas_por_fornecedor ==
    LET J == Joined("codigo_cliente_fornecedor", clientes, "codigo_cliente_integracao")
        rows == { [fornecedor |-> g, total |-> GroupTotal(J, "razao_social", g)] :
                    g \in { p[2].razao_social : p \in J } }
    IN  { s \in Orderings(rows) : OrderedByTotalDesc(s) }

\* WHERE to_date(data_vencimento, 'DD/MM/YYYY') < CURRENT_DATE
Vencido(row) == date_lt(to_date(row.data_vencimento), today)

query_pagamentos_vencidos ==
    IF ~AllDatesValid(contapagar) THEN {}
    ELSE Reorderings(SelectSeq(contapagar, Vencido))

\* the GROUP BY key with a fault: the date itself, not its month
MesDe_day(row) == to_date(row.data_vencimento)

\* DATE_TRUNC('month', to_date(data_vencimento, 'DD/MM/YYYY'))
MesDe(row) == date_trunc_month(to_date(row.data_vencimento))

query_tendencias_despesas(cp) ==
    IF ~AllDatesValid(cp) THEN {}
    ELSE LET I == DOMAIN cp
             total(m) == LET G == { i \in I : MesDe(cp[i]) = m }
                         IN  SetSum(G, [i \in G |-> cp[i].valor_documento])
             rows == { [mes |-> m, total |-> total(m)] : m \in { MesDe(cp[i]) : i \in I } }
         IN  { s \in Orderings(rows) :
                 \A i, j \in DOMAIN s : i < j => date_lt(s[i].mes, s[j].mes) }

(***************************************************************************)
(* pandas operations used by the views.                                    *)
(***************************************************************************)
\* Series.sum with a fault: the last row is left out
SeriesSum_droplast(df) ==
    SeqSum([i \in 1..(IF Len(df) = 0 THEN 0 ELSE Len(df) - 1) |-> df[i].valor_documento])

\* df["valor_documento"].sum()
SeriesSum(df) == SeqSum([i \in DOMAIN df |-> df[i].valor_documento])

\* saldo = total_receitas - total_despesas
Saldo(total_receitas, total_despesas) == total_receitas - total_despesas

\* strptime with a fault in the format: "%m/%d/%Y"
strptime_monthfirst(t) == [year |-> t.yyyy, month |-> t.dd, day |-> t.mm]

\* datetime.strptime(t, "%d/%m/%Y"), for a text ValidText accepts
strptime(t) == [year |-> t.yyyy, month |-> t.mm, day |-> t.dd]

\* pd.to_datetime(v, format="%d/%m/%Y", dayfirst=True) of one value; a value that
\* is a datetime already is returned as it is
pd_to_datetime(v) == IF IsText(v) THEN strptime(v) ELSE v

CanParse(df) ==
    \A i \in DOMAIN df : IsText(df[i].data_vencimento) => ValidText(df[i].data_vencimento)

\* despesas["data_vencimento"] = pd.to_datetime(despesas["data_vencimento"], ...)
WithParsedDates(df) ==
    [i \in DOMAIN df |-> [df[i] EXCEPT !.data_vencimento = pd_to_datetime(@)]]

MonthIndex(d) == d.year * 12 + (d.month - 1)

MonthEnd(idx) ==
    LET y == idx \div 12
        m == (idx % 12) + 1
    IN  [year |-> y, month |-> m, day |-> DaysInMonth(y, m)]

\* the bins of pd.Grouper(key="data_vencimento", freq="M"): every calendar month
\* from the earliest to the latest date of the column
GrouperBins(df) ==
    LET idx == { MonthIndex(df[i].data_vencimento) : i \in DOMAIN df }
    IN  IF idx = {} THEN {}
        ELSE LET lo == CHOOSE a \in idx : \A b \in idx : a <= b
                 hi == CHOOSE a \in idx : \A b \in idx : a >= b
             IN  lo..hi

\* despesas.groupby(pd.Grouper(key="data_vencimento", freq="M")).sum().reset_index()
\* one row per bin, labelled with the last day of the month, ascending
MonthlySum(df) ==
    LET bins == GrouperBins(df)
        lo == CHOOSE a \in bins : \A b \in bins : a <= b
        total(b) == LET G == { i \in DOMAIN df : MonthIndex(df[i].data_vencimento) = b }
                    IN  SetSum(G, [i \in G |-> df[i].valor_documento])
    IN  IF bins = {} THEN <<>>
        ELSE [k \in 1..Cardinality(bins) |->
                [data_vencimento |-> MonthEnd(lo + k - 1), valor_documento |-> total(lo + k - 1)]]

(***************************************************************************)
(* st.cache_data and the five views.                                       *)
(***************************************************************************)
LoadFunctions ==
    { "load_fluxo_caixa_data", "load_despesas_por_categoria",
      "load_despesas_por_fornecedor", "load_pagamentos_vencidos",
      "load_tendencias_despesas" }

\* list(dashboards.keys()), in the order of the dict
Labels ==
    << "Fluxo de Caixa", "Despesas por Categoria", "Despesas por Fornecedor",
       "Pagamentos Vencidos", "Tendências de Despesas" >>

\* the dict with a fault: two labels share one render function
dashboards_shared ==
    [l \in Range(Labels) |->
        IF l = "Despesas por Fornecedor" THEN "dashboard_despesas_categoria"
        ELSE IF l = "Fluxo de Caixa" THEN "dashboard_fluxo_caixa"
        ELSE IF l = "Despesas por Categoria" THEN "dashboard_despesas_categoria"
        ELSE IF l = "Pagamentos Vencidos" THEN "dashboard_pagamentos_vencidos"
        ELSE "dashboard_tendencias"]

\* the dict of main: label -> render function
dashboards ==
    [l \in Range(Labels) |->
        IF l = "Fluxo de Caixa" THEN "dashboard_fluxo_caixa"
        ELSE IF l = "Despesas por Categoria" THEN "dashboard_despesas_categoria"
        ELSE IF l = "Despesas por Fornecedor" THEN "dashboard_despesas_fornecedor"
        ELSE IF l = "Pagamentos Vencidos" THEN "dashboard_pagamentos_vencidos"
        ELSE "dashboard_tendencias"]

\* the outcomes of one call of a function decorated with st.cache_data whose
\* body returns one of results or raises (the database may fail any query):
\* a stored value is returned without running the body; a body that returns
\* has its value stored; a body that raises stores nothing
CachedCall(f, results) ==
    IF cache[f] # <<>>
    THEN { [raised |-> FALSE, executed |-> FALSE, value |-> cache[f], store |-> cache[f]] }
    ELSE { [raised |-> FALSE, executed |-> TRUE, value |-> <<r>>, store |-> <<r>>] :
              r \in results }
         \cup { [raised |-> TRUE, executed |-> TRUE, value |-> <<>>, store |-> <<>>] }

\* st.cache_data with a fault: the caller gets the stored object itself, so the
\* caller's in-place writes are writes to the cache entry
EntryAfterCallerWrites_aliased(stored, local) == local

\* st.cache_data hands every caller a copy of the stored value: the entry stays
\* as stored whatever the caller then writes into the object it received
EntryAfterCallerWrites(stored, local) == stored

\* what a view leaves on the page
Page(view, failed, metrics, table, chart) ==
    [view |-> view, failed |-> failed, metrics |-> metrics, table |-> table, chart |-> chart]

\* Loaded with a fault: a load function that raises empties the whole cache
Loaded_clearonraise(f, c, entry) ==
    /\ called' = {f}
    /\ queried' = IF c.executed THEN {f} ELSE {}
    /\ returned' = c.value
    /\ cache' = IF c.raised THEN [g \in LoadFunctions |-> <<>>]
                ELSE [cache EXCEPT ![f] = entry]

\* the effect of one call of a load function on everything but the page
Loaded(f, c, entry) ==
    /\ called' = {f}
    /\ queried' = IF c.executed THEN {f} ELSE {}
    /\ returned' = c.value
    /\ cache' = [cache EXCEPT ![f] = entry]

dashboard_fluxo_caixa ==
    \E c \in CachedCall("load_fluxo_caixa_data", query_fluxo_caixa) :
      LET f == "load_fluxo_caixa_data" IN
      IF c.raised
      THEN /\ Loaded(f, c, c.store)
           /\ display' = Page("dashboard_fluxo_caixa", TRUE, <<>>, <<>>, <<>>)
      ELSE LET despesas == c.value[1].despesas
               receitas == c.value[1].receitas
               total_despesas == SeriesSum(despesas)
               total_receitas == SeriesSum(receitas)
               saldo == Saldo(total_receitas, total_despesas)
               metrics == <<total_despesas, total_receitas, saldo>>
           IN  IF ~CanParse(despesas)
               THEN /\ Loaded(f, c, c.store)
                    /\ display' = Page("dashboard_fluxo_caixa", TRUE, metrics, <<>>, <<>>)
               ELSE LET parsed == WithParsedDates(despesas)
                        despesas_monthly == MonthlySum(parsed)
                        entry == << [despesas |-> EntryAfterCallerWrites(c.store[1].despesas, parsed),
                                     receitas |-> c.store[1].receitas] >>
                    IN  /\ Loaded(f, c, entry)
                        /\ display' = Page("dashboard_fluxo_caixa", FALSE, metrics, <<>>,
                                           << [kind |-> "line", data |-> despesas_monthly] >>)

\* if not df.empty: st.bar_chart(df.set_index(...))
ChartIfNotEmpty(df) == IF df # <<>> THEN << [kind |-> "bar", data |-> df] >> ELSE <<>>

dashboard_despesas_categoria ==
    \E c \in CachedCall("load_despesas_por_categoria", query_despesas_por_categoria) :
      /\ Loaded("load_despesas_por_categoria", c, c.store)
      /\ display' = IF c.raised
                    THEN Page("dashboard_despesas_categoria", TRUE, <<>>, <<>>, <<>>)
                    ELSE Page("dashboard_despesas_categoria", FALSE, <<>>, c.value,
                              ChartIfNotEmpty(c.value[1]))

dashboard_despesas_fornecedor ==
    \E c \in CachedCall("load_despesas_por_fornecedor", query_despesas_por_fornecedor) :
      /\ Loaded("load_despesas_por_fornecedor", c, c.store)
      /\ display' = IF c.raised
                    THEN Page("dashboard_despesas_fornecedor", TRUE, <<>>, <<>>, <<>>)
                    ELSE Page("dashboard_despesas_fornecedor", FALSE, <<>>, c.value,
                              ChartIfNotEmpty(c.value[1]))

dashboard_pagamentos_vencidos ==
    \E c \in CachedCall("load_pagamentos_vencidos", query_pagamentos_vencidos) :
      /\ Loaded("load_pagamentos_vencidos", c, c.store)
      /\ display' = IF c.raised
                    THEN Page("dashboard_pagamentos_vencidos", TRUE, <<>>, <<>>, <<>>)
                    ELSE Page("dashboard_pagamentos_vencidos", FALSE, <<>>, c.value, <<>>)

\* pd.to_datetime of a value that is a timestamp already: the same instant
pd_to_datetime_ts(v) == v

dashboard_tendencias ==
    \E c \in CachedCall("load_tendencias_despesas", query_tendencias_despesas(contapagar)) :
      LET f == "load_tendencias_despesas" IN
      IF c.raised
      THEN /\ Loaded(f, c, c.store)
           /\ display' = Page("dashboard_tendencias", TRUE, <<>>, <<>>, <<>>)
      ELSE LET df == c.value[1]
               rewritten == [i \in DOMAIN df |-> [df[i] EXCEPT !.mes = pd_to_datetime_ts(@)]]
           IN  /\ Loaded(f, c, << EntryAfterCallerWrites(c.store[1], rewritten) >>)
               /\ display' = Page("dashboard_tendencias", FALSE, <<>>, c.value,
                                  << [kind |-> "line", data |-> rewritten] >>)

\* dashboards[escolha]()
Dispatch(fn) ==
    /\ invoked' = {fn}
    /\ CASE fn = "dashboard_fluxo_caixa" -> dashboard_fluxo_caixa
         [] fn = "dashboard_despesas_categoria" -> dashboard_despesas_categoria
         [] fn = "dashboard_despesas_fornecedor" -> dashboard_despesas_fornecedor
         [] fn = "dashboard_pagamentos_vencidos" -> dashboard_pagamentos_vencidos
         [] fn = "dashboard_tendencias" -> dashboard_tendencias

\* one run of the script: the radio holds its first option until the user picks
\* another, and the function mapped to the selected label is called
main(l) ==
    /\ started \/ l = Labels[1]
    /\ started' = TRUE
    /\ escolha' = l
    /\ renderDate' = today
    /\ Dispatch(dashboards[l])
    /\ UNCHANGED <<dbvars, today>>

\* the calendar date of the database server moves on to the next day
AdvanceDate ==
    /\ date2j(today) - date2j(StartDate) < MaxAdvance
    /\ today' = NextDay(today)
    /\ UNCHANGED <<dbvars, started, escolha, cache, invoked, called, queried,
                   returned, display, renderDate>>

NoPage == Page("", FALSE, <<>>, <<>>, <<>>)

\* the process is started again: the cache and the session are new
Restart ==
    /\ started
    /\ started' = FALSE
    /\ escolha' = Labels[1]
    /\ cache' = [f \in LoadFunctions |-> <<>>]
    /\ invoked' = {}
    /\ called' = {}
    /\ queried' = {}
    /\ returned' = <<>>
    /\ display' = NoPage
    /\ renderDate' = today
    /\ UNCHANGED <<dbvars, today>>

Next ==
    \/ \E l \in Range(Labels) : main(l)
    \/ AdvanceDate
    \/ Restart

\* the runs of a user who looks at the cash flow only
NextCaixa ==
    \/ main("Fluxo de Caixa")
    \/ Restart

\* the runs of a user who goes to the overdue payments
NextVencidos ==
    \/ \E l \in {"Fluxo de Caixa", "Pagamentos Vencidos"} : main(l)
    \/ AdvanceDate
    \/ Restart

\* the runs of a user who goes to the monthly trend
NextMeses ==
    \/ \E l \in {"Fluxo de Caixa", "Tendências de Despesas"} : main(l)
    \/ Restart

\* the runs of a user who goes to the two aggregations by label
NextAgregados ==
    \/ \E l \in {"Fluxo de Caixa", "Despesas por Categoria", "Despesas por Fornecedor"} : main(l)
    \/ Restart

(***************************************************************************)
(* Initial states: the tables hold any rows of the domains below, the      *)
(* process has just started and nothing is memoized.                       *)
(***************************************************************************)
Amounts == 1..MaxAmount

PagarRow(due, amt, cat, cli) ==
    [data_vencimento |-> due, valor_documento |-> amt,
     codigo_categoria |-> cat, codigo_cliente_fornecedor |-> cli]

ReceberRow(due, amt) == [data_vencimento |-> due, valor_documento |-> amt]

CategoriaRow(cod, desc) == [codigo |-> cod, descricao |-> desc]

ClienteRow(cod, nome) == [codigo_cliente_integracao |-> cod, razao_social |-> nome]

InitSession ==
    /\ today = StartDate
    /\ started = FALSE
    /\ escolha = Labels[1]
    /\ cache = [f \in LoadFunctions |-> <<>>]
    /\ invoked = {}
    /\ called = {}
    /\ queried = {}
    /\ returned = <<>>
    /\ display = NoPage
    /\ renderDate = StartDate

\* the categories and parties tables: none, one label per code, code 2 missing,
\* and two codes under one label
Dimensions ==
    { <<{}, {}>>,
      <<{CategoriaRow(1, "a"), CategoriaRow(2, "b")}, {ClienteRow(1, "x"), ClienteRow(2, "y")}>>,
      <<{CategoriaRow(1, "a")}, {ClienteRow(2, "y")}>>,
      <<{CategoriaRow(1, "a"), CategoriaRow(2, "a")}, {ClienteRow(1, "x"), ClienteRow(2, "x")}>> }

InitTables(pagar, receber, dims) ==
    /\ contapagar \in pagar
    /\ contareceber \in receber
    /\ \E d \in dims : categorias = d[1] /\ clientes = d[2]
    /\ InitSession

\* the session: a due date that the clock passes, and a text that names no
\* calendar day
SessionDues == { Txt(14, 6, 2024), Txt(31, 2, 2024) }

Init ==
    \/ InitTables(SeqsUpTo({ PagarRow(d, 1, 1, 1) : d \in SessionDues }, MaxRows),
                  { << ReceberRow(Txt(10, 6, 2024), 1) >> },
                  { <<{CategoriaRow(1, "a")}, {ClienteRow(1, "x")}>> })
    \/ InitTables({ <<>> }, { <<>> }, { <<{}, {}>> })

Spec == Init /\ [][Next]_vars

\* the cash-flow totals: any amounts on both sides
InitCaixa ==
    InitTables(SeqsUpTo({ PagarRow(Txt(10, 6, 2024), a, 1, 1) : a \in Amounts }, MaxRows),
               SeqsUpTo({ ReceberRow(Txt(10, 6, 2024), a) : a \in Amounts }, MaxRows),
               { <<{}, {}>> })

SpecCaixa == InitCaixa /\ [][NextCaixa]_vars

\* the overdue filter: due dates before, on and after the dates the clock takes,
\* in the year before, and one that is before them only if read month first
VencidosDues ==
    { Txt(10, 6, 2024), Txt(14, 6, 2024), Txt(15, 6, 2024), Txt(6, 10, 2024),
      Txt(20, 6, 2023) }

InitVencidos ==
    InitTables(SeqsUpTo({ PagarRow(d, 1, 1, 1) : d \in VencidosDues }, MaxRows),
               { <<>> }, { <<{}, {}>> })

SpecVencidos == InitVencidos /\ [][NextVencidos]_vars

\* the monthly series: two days of one month, a month read day first, months
\* with a gap between them, and a month of the year before
MesesDues ==
    { Txt(5, 1, 2024), Txt(15, 1, 2024), Txt(1, 5, 2024), Txt(10, 3, 2024),
      Txt(31, 12, 2023) }

InitMeses ==
    InitTables(SeqsUpTo({ PagarRow(d, a, 1, 1) : d \in MesesDues, a \in Amounts }, MaxRows),
               { <<>> }, { <<{}, {}>> })

SpecMeses == InitMeses /\ [][NextMeses]_vars

\* the aggregations by label: any amounts under two codes
InitAgregados ==
    InitTables(SeqsUpTo({ PagarRow(Txt(10, 6, 2024), a, k, k) : a \in Amounts, k \in 1..2 },
                        MaxRows),
               { <<>> }, Dimensions)

SpecAgregados == InitAgregados /\ [][NextAgregados]_vars

(***************************************************************************)
(* What the properties speak of, said without the operators of the model.  *)
(***************************************************************************)
\* the rows of tbl with amount v, each counted once per occurrence
RECURSIVE AmountTimesCount(_, _)
AmountTimesCount(tbl, v) ==
    IF v <= 0 THEN 0
    ELSE v * Cardinality({ i \in DOMAIN tbl : tbl[i].valor_documento = v })
         + AmountTimesCount(tbl, v - 1)

LargestAmount(tbl) ==
    IF tbl = <<>> THEN 0
    ELSE LET A == { tbl[i].valor_documento : i \in DOMAIN tbl }
         IN  CHOOSE a \in A : \A b \in A : a >= b

\* the sum of the amounts of the rows of a table, whatever their order
TotalOf(tbl) == AmountTimesCount(tbl, LargestAmount(tbl))

\* the rows of tbl whose due text has month mm and year yyyy
DueIn(tbl, mm, yyyy) ==
    SelectSeq(tbl, LAMBDA r : r.data_vencimento.mm = mm /\ r.data_vencimento.yyyy = yyyy)

\* the <<year, month>> pairs in which a row of tbl is due
DueMonths(tbl) ==
    { <<tbl[i].data_vencimento.yyyy, tbl[i].data_vencimento.mm>> : i \in DOMAIN tbl }

\* month a is before month b
MonthBefore(a, b) == a[1] < b[1] \/ (a[1] = b[1] /\ a[2] < b[2])

\* the day written in text t is before date d
DueBefore(t, d) ==
    \/ t.yyyy < d.year
    \/ t.yyyy = d.year /\ t.mm < d.month
    \/ t.yyyy = d.year /\ t.mm = d.month /\ t.dd < d.day

Occurrences(tbl, row) == Cardinality({ i \in DOMAIN tbl : tbl[i] = row })

\* tbl holds exactly the rows of accounts payable due before date d
ExactlyOverdue(tbl, d) ==
    /\ \A i \in DOMAIN tbl : DueBefore(tbl[i].data_vencimento, d)
    /\ \A i \in DOMAIN contapagar :
         DueBefore(contapagar[i].data_vencimento, d) =>
            Occurrences(tbl, contapagar[i]) = Occurrences(contapagar, contapagar[i])
    /\ \A i \in DOMAIN tbl : \E j \in DOMAIN contapagar : tbl[i] = contapagar[j]

\* the amounts of the expense rows joined to label g, one per joined pair
JoinedTotal(fk, dim, key, label, g) ==
    LET pairs == { <<i, d>> \in (DOMAIN contapagar) \X dim :
                     d[label] = g /\ d[key] = contapagar[i][fk] }
        rows == { i \in DOMAIN contapagar : \E d \in dim : <<i, d>> \in pairs }
        times(i) == Cardinality({ d \in dim : <<i, d>> \in pairs })
        weight(a) == SeqSum([k \in 1..Len(contapagar) |->
                        IF k \in rows /\ contapagar[k].valor_documento = a
                        THEN times(k) ELSE 0])
    IN  SeqSum([a \in 1..LargestAmount(contapagar) |-> a * weight(a)])

\* the labels that some expense row is joined to
JoinedLabels(fk, dim, key, label) ==
    { d[label] : d \in { d \in dim : \E i \in DOMAIN contapagar : d[key] = contapagar[i][fk] } }

\* T is the aggregation by label, sorted descending by total
SortedAggregation(T, col, fk, dim, key, label) ==
    /\ \A i \in 1..(Len(T) - 1) : T[i].total >= T[i + 1].total
    /\ \A i \in DOMAIN T : T[1].total >= T[i].total
    /\ \A i, j \in DOMAIN T : i # j => T[i][col] # T[j][col]
    /\ { T[i][col] : i \in DOMAIN T } = JoinedLabels(fk, dim, key, label)
    /\ \A i \in DOMAIN T : T[i].total = JoinedTotal(fk, dim, key, label, T[i][col])

\* the view is on the page and did not fail
Shown(view) == started /\ display.view = view /\ ~display.failed

\* the series charted by the cash-flow view and the series of a trend table, as
\* sets of <<year, month, sum>>
ChartSeries ==
    { <<r.data_vencimento.year, r.data_vencimento.month, r.valor_documento>> :
        r \in Range(display.chart[1].data) }

TrendSeries(t) == { <<r.mes.year, r.mes.month, r.total>> : r \in Range(t) }

MonthsOfSeries(S) == { <<e[1], e[2]>> : e \in S }

\* the expense rows of the scenario of the monthly trend
ScenarioRows ==
    << PagarRow(Txt(1, 1, 2024), 100, 1, 1), PagarRow(Txt(15, 1, 2024), 50, 1, 1),
       PagarRow(Txt(1, 2, 2024), 30, 1, 1) >>

\* the last call of a load function returned, with no rows
ReturnedNoRows ==
    /\ started
    /\ returned # <<>>
    /\ IF called = {"load_fluxo_caixa_data"}
       THEN returned[1].despesas = <<>> /\ returned[1].receitas = <<>>
       ELSE returned[1] = <<>>

\* the render function and the load function of the report of a label
ReportOf(label) ==
    CASE label = "Fluxo de Caixa" -> <<"dashboard_fluxo_caixa", "load_fluxo_caixa_data">>
      [] label = "Despesas por Categoria" ->
            <<"dashboard_despesas_categoria", "load_despesas_por_categoria">>
      [] label = "Despesas por Fornecedor" ->
            <<"dashboard_despesas_fornecedor", "load_despesas_por_fornecedor">>
      [] label = "Pagamentos Vencidos" ->
            <<"dashboard_pagamentos_vencidos", "load_pagamentos_vencidos">>
      [] label = "Tendências de Despesas" ->
            <<"dashboard_tendencias", "load_tendencias_despesas">>

\* a step that is a run of main; one in which the query of the view raised; and
\* one that changed what views other than the one rendered read
RunOfMain == started' /\ today' = today

QueryFailed == RunOfMain /\ display'.failed /\ returned' = <<>>

OthersTouched ==
    \/ \E f \in LoadFunctions \ called' : cache'[f] # cache[f]
    \/ dbvars' # dbvars
    \/ today' # today

(***************************************************************************)
(* C1: in the cash-flow view the total of the expenses is the sum of the   *)
(* amounts of all rows of accounts payable whatever the order in which the *)
(* query returned them, the total of the revenue is the sum of the amounts *)
(* of all rows of accounts receivable, and saldo is the revenue total      *)
(* minus the expense total, also when a table has no rows (total 0).       *)
(***************************************************************************)
C1_CashFlowTotals ==
    (started /\ display.view = "dashboard_fluxo_caixa" /\ display.metrics # <<>>) =>
        /\ display.metrics[1] = TotalOf(contapagar)
        /\ display.metrics[2] = TotalOf(contareceber)
        /\ display.metrics[3] = display.metrics[2] - display.metrics[1]
        /\ (contapagar = <<>> => display.metrics[1] = 0)
        /\ (contareceber = <<>> => display.metrics[2] = 0)

\* the totals were shown for expenses of different amounts that the query
\* returned in another order than the table holds them, with no revenue
C1_Witness ==
    /\ Shown("dashboard_fluxo_caixa")
    /\ Len(contapagar) >= 2
    /\ contapagar[1].valor_documento # contapagar[2].valor_documento
    /\ returned[1].despesas # Projecao(contapagar)
    /\ contareceber = <<>>
    /\ display.metrics[3] < 0

(***************************************************************************)
(* C2: when the overdue query is executed it returns exactly the rows of   *)
(* accounts payable whose due date, read as DD/MM/YYYY, is strictly before *)
(* the current date of the execution: every row due before it is in the    *)
(* result, and no row due on it or after it is.                            *)
(***************************************************************************)
C2_OverdueQuery ==
    (started /\ queried = {"load_pagamentos_vencidos"} /\ returned # <<>>) =>
        ExactlyOverdue(returned[1], renderDate)

\* the query ran on 2024-06-15 over a row due 10/06/2024, which it returned,
\* and a row due 15/06/2024, which it did not
C2_Witness ==
    /\ started
    /\ queried = {"load_pagamentos_vencidos"}
    /\ returned # <<>>
    /\ renderDate = [year |-> 2024, month |-> 6, day |-> 15]
    /\ \E i \in DOMAIN contapagar : contapagar[i].data_vencimento = Txt(15, 6, 2024)
    /\ Len(returned[1]) = 1
    /\ returned[1][1].data_vencimento = Txt(10, 6, 2024)

(***************************************************************************)
(* C3: the monthly trend holds one row per calendar month in which an      *)
(* expense is due, ascending by month; each month is the first day of a    *)
(* month of some due date, appears once, and its total is the sum of the   *)
(* amounts of the rows due in it.  The rows 01/01/2024:100, 15/01/2024:50, *)
(* 01/02/2024:30 give (2024-01-01, 150), (2024-02-01, 30).                 *)
(***************************************************************************)
C3_MonthlyTrend ==
    /\ query_tendencias_despesas(ScenarioRows) =
         { << [mes |-> [year |-> 2024, month |-> 1, day |-> 1], total |-> 150],
              [mes |-> [year |-> 2024, month |-> 2, day |-> 1], total |-> 30] >> }
    /\ Shown("dashboard_tendencias") =>
         LET T == display.table[1]
             month(i) == <<T[i].mes.year, T[i].mes.month>>
         IN  /\ \A i, j \in DOMAIN T : i < j => MonthBefore(month(i), month(j))
             /\ \A i \in DOMAIN T : T[i].mes.day = 1
             /\ { month(i) : i \in DOMAIN T } = DueMonths(contapagar)
             /\ \A i \in DOMAIN T :
                  T[i].total = TotalOf(DueIn(contapagar, T[i].mes.month, T[i].mes.year))

\* the trend was shown for two expenses of one month due on different days: one
\* row, with their sum
C3_Witness ==
    /\ Shown("dashboard_tendencias")
    /\ Len(contapagar) = 2
    /\ contapagar[1].data_vencimento # contapagar[2].data_vencimento
    /\ Len(display.table[1]) = 1
    /\ display.table[1][1].total
         = contapagar[1].valor_documento + contapagar[2].valor_documento

(***************************************************************************)
(* C4: the aggregations by category and by supplier hold one row per label *)
(* that has a joined expense row, with the sum of the amounts of the       *)
(* joined rows, sorted descending by total: of two consecutive rows the    *)
(* earlier total is at least the later one, so a row of the largest total  *)
(* is first; rows of equal totals come in any order.                       *)
(***************************************************************************)
C4_SortedByTotal ==
    /\ Shown("dashboard_despesas_categoria") =>
         SortedAggregation(display.table[1], "categoria",
                           "codigo_categoria", categorias, "codigo", "descricao")
    /\ Shown("dashboard_despesas_fornecedor") =>
         SortedAggregation(display.table[1], "fornecedor", "codigo_cliente_fornecedor",
                           clientes, "codigo_cliente_integracao", "razao_social")

\* the categories were shown with two labels of different totals, the label of
\* the smaller total being the one of the first row of accounts payable
C4_Witness ==
    /\ Shown("dashboard_despesas_categoria")
    /\ Len(display.table[1]) = 2
    /\ display.table[1][1].total > display.table[1][2].total
    /\ contapagar[1].valor_documento < display.table[1][1].total
    /\ \E d \in categorias :
         d.codigo = contapagar[1].codigo_categoria
           /\ d.descricao = display.table[1][2].categoria

(***************************************************************************)
(* C5: when the query of a view returns no rows the view renders without   *)
(* failure: its table is shown empty, its metrics are shown as zero, and   *)
(* no line or bar chart is drawn.                                          *)
(***************************************************************************)
C5_EmptyDrawsNoChart ==
    ReturnedNoRows =>
        /\ ~display.failed
        /\ display.table # <<>> => display.table[1] = <<>>
        /\ display.metrics # <<>> => display.metrics = <<0, 0, 0>>
        /\ display.chart = <<>>

(***************************************************************************)
(* C6: in every run of main the selected label is one of the five labels   *)
(* and exactly one render function is invoked, the one of that label; only *)
(* the load function of that report is called, and no query of another     *)
(* report is executed.                                                     *)
(***************************************************************************)
C6_OneReportPerRun ==
    started =>
        /\ escolha \in Range(Labels)
        /\ Cardinality(invoked) = 1
        /\ invoked = { ReportOf(escolha)[1] }
        /\ display.view = ReportOf(escolha)[1]
        /\ called = { ReportOf(escolha)[2] }
        /\ queried \subseteq { ReportOf(escolha)[2] }

\* the supplier report was selected and its query was executed
C6_Witness ==
    /\ started
    /\ escolha = "Despesas por Fornecedor"
    /\ queried = {"load_despesas_por_fornecedor"}
    /\ display.view = "dashboard_despesas_fornecedor"

(***************************************************************************)
(* C7: a query that fails while a view renders affects that view only:     *)
(* after it every label can still be selected, and the failing run leaves  *)
(* the tables, the date and the memoized result of every other load        *)
(* function as they were, so that another view renders what it would have  *)
(* rendered had the query not failed.                                      *)
(***************************************************************************)
C7_FailureIsLocal ==
    /\ [](started /\ display.failed /\ returned = <<>>
            => \A l \in Range(Labels) : ENABLED main(l))
    /\ [][QueryFailed => ~OthersTouched]_vars

\* the query of a view has failed while results of two other load functions
\* are memoized
C7_Witness ==
    /\ started
    /\ display.failed
    /\ returned = <<>>
    /\ Cardinality({ f \in LoadFunctions \ called : cache[f] # <<>> }) >= 2

(***************************************************************************)
(* C8: once a load function has returned, every later call of it in the    *)
(* same process returns the table it returned first, without executing its *)
(* query, whatever views were selected in between and whatever the views   *)
(* wrote into the tables they received; a call that fails stores nothing,  *)
(* so the next call executes the query again.                              *)
(***************************************************************************)
C8_Memoized ==
    [][\A f \in LoadFunctions :
         /\ (cache[f] # <<>> /\ started') => cache'[f] = cache[f]
         /\ (cache[f] # <<>> /\ RunOfMain /\ called' = {f}) =>
               returned' = cache[f] /\ queried' = {}
         /\ (cache[f] = <<>> /\ RunOfMain /\ called' = {f}) =>
               queried' = {f} /\ cache'[f] = returned'
         /\ (cache[f] = <<>> /\ RunOfMain /\ called' # {f}) => cache'[f] = <<>>]_vars

\* the cash-flow view got its memoized table, with rows, while the result of
\* the trend, selected in between, is memoized too
C8_Witness ==
    /\ started
    /\ called = {"load_fluxo_caixa_data"}
    /\ queried = {}
    /\ returned # <<>>
    /\ returned = cache["load_fluxo_caixa_data"]
    /\ returned[1].despesas # <<>>
    /\ cache["load_tendencias_despesas"] # <<>>
    /\ cache["load_pagamentos_vencidos"] = <<>>

(***************************************************************************)
(* C9, as stated: for every expense table the monthly series charted by    *)
(* the cash-flow view and the monthly trend aggregation hold an entry for  *)
(* exactly the same calendar months, the months (MM/YYYY of the due text)  *)
(* in which an expense is due, with the same sum for each.                 *)
(***************************************************************************)
C9_SameMonths ==
    Shown("dashboard_fluxo_caixa") =>
        \A t \in query_tendencias_despesas(contapagar) :
            /\ MonthsOfSeries(ChartSeries) = DueMonths(contapagar)
            /\ MonthsOfSeries(TrendSeries(t)) = DueMonths(contapagar)
            /\ ChartSeries = TrendSeries(t)

(***************************************************************************)
(* C9, amended: the trend aggregation holds exactly the months in which an *)
(* expense is due, and the charted series holds each of them with the same *)
(* sum; the charted series holds one entry for every calendar month from   *)
(* the earliest to the latest due month, and an entry for a month in which *)
(* no expense is due lies between two due months and has the sum 0.        *)
(***************************************************************************)
C9_TrendWithinChart ==
    Shown("dashboard_fluxo_caixa") =>
        \A t \in query_tendencias_despesas(contapagar) :
            LET due == DueMonths(contapagar)
                chart == MonthsOfSeries(ChartSeries)
                years == { m[1] : m \in due }
            IN  /\ MonthsOfSeries(TrendSeries(t)) = due
                /\ TrendSeries(t) \subseteq ChartSeries
                /\ \A e \in TrendSeries(t) :
                     e[3] = TotalOf(DueIn(contapagar, e[2], e[1]))
                /\ Len(display.chart[1].data) = Cardinality(chart)
                /\ \A e \in ChartSeries :
                     <<e[1], e[2]>> \notin due =>
                        /\ e[3] = 0
                        /\ \E a, b \in due :
                             MonthBefore(a, <<e[1], e[2]>>) /\ MonthBefore(<<e[1], e[2]>>, b)
                /\ \A a, b \in due : \A y \in years : \A m \in 1..12 :
                     (MonthBefore(a, <<y, m>>) /\ MonthBefore(<<y, m>>, b)) => <<y, m>> \in chart

\* the chart was drawn for expenses due on 05/01/2024 and in March 2024: it
\* holds January, March and, with the sum 0, February
C9_Witness ==
    /\ Shown("dashboard_fluxo_caixa")
    /\ \E i \in DOMAIN contapagar : contapagar[i].data_vencimento = Txt(5, 1, 2024)
    /\ DueMonths(contapagar) = { <<2024, 1>>, <<2024, 3>> }
    /\ <<2024, 2, 0>> \in ChartSeries
    /\ MonthsOfSeries(ChartSeries) = { <<2024, 1>>, <<2024, 2>>, <<2024, 3>> }

(***************************************************************************)
(* C10: whenever the overdue view is shown, after any selections and       *)
(* advances of the calendar date, its table holds every row of accounts    *)
(* payable due strictly before the current date of that moment and no row  *)
(* due on or after it.                                                     *)
(***************************************************************************)
C10_OverdueViewCurrent ==
    Shown("dashboard_pagamentos_vencidos") => ExactlyOverdue(display.table[1], renderDate)

====
